---- MODULE Spec2Model ----
(***************************************************************************)
(* A model of pytex (src/pytex/__main__.py): the driver RunMe with its     *)
(* recompilation loop and artifact copy, the inclusion filter accept_input *)
(* and the suppression pass ProduceIntermediateCode, and the scanner calls *)
(* of the future-reference analysis.                                       *)
(*                                                                         *)
(* File names and texts are sequences of tokens: a token stands for a      *)
(* substring that the code's str.replace / find calls treat as a unit.     *)
(***************************************************************************)
EXTENDS Integers, Sequences, FiniteSets, TLC

VARIABLES
    options,               \* the Options object's flags and output names
    pc,                    \* position of RunMe
    branch,                \* which call site of compilation() is active
    passes,                \* number of latex_more() calls made
    copy_calls,            \* number of copy_final_file() calls made
    log_checks,            \* number of rerun_to_get_cross_references() calls
    on,                    \* the loop variable `on` of RunMe
    copy_log,              \* shutil.copy2 calls of the last copy_final_file
    copy_status,           \* "none" | "ok" | "raised" (last copy_final_file)
    new_filenames,         \* destination list of the last copy_final_file
    rough_calls,           \* `fast` argument of every rough_code() call
    scan_calls,            \* every search_use_of_macro call of the analysis
    summaries,             \* number of verif_grep() calls
    summary,               \* the lines the last verif_grep() gave to output
    events,                \* the plugin calls and function calls of the run
    error,                 \* the exception that ended the run, or "none"
    pytex,                 \* the principal document as pytex_file keeps it
    text,                  \* options.text_before_pytex
    ok_filenames_list,     \* names accepted for \input
    refute_filenames_list, \* names refused for \input
    phase,                 \* position of the text operations
    query,                 \* argument of the last accept_input call
    accepted,              \* result of the last accept_input call
    out1,                  \* ProduceIntermediateCode(text)
    out2,                  \* ProduceIntermediateCode(out1)
    plugin_list,           \* myRequest.plugin_list: the hook name of each plugin
    failing,               \* index of the plugin that raises when called, or 0
    stage,                 \* hook name of the last apply_plugin call
    applied,               \* what that apply_plugin call did
    rough_code,            \* the text the future-reference analysis scans
    has_to_be_printed,     \* myRequest.has_to_be_printed: the offsets it accepts
    analysis               \* what future_reference_verification did

run_vars == <<options, pc, branch, passes, copy_calls, log_checks, on,
              copy_log, copy_status, new_filenames, rough_calls, scan_calls,
              summaries, summary, events, error, pytex>>
text_vars == <<text, ok_filenames_list, refute_filenames_list, phase, query,
               accepted, out1, out2>>
plugin_vars == <<plugin_list, failing>>
apply_vars == <<stage, applied>>
future_vars == <<rough_code, has_to_be_printed, analysis>>
vars == <<run_vars, text_vars, plugin_vars, apply_vars, future_vars>>
\* what the steps of RunMe leave alone, and what the text operations do
not_run == <<text_vars, plugin_vars, apply_vars, future_vars>>
not_text == <<run_vars, plugin_vars, apply_vars, future_vars>>

(***************************************************************************)
(* Bounds of the model.                                                    *)
(***************************************************************************)
\* latex_more() calls after which the log check is no longer let to ask
\* for a rerun (the code itself has no such limit).
PassCap == 5
\* longest list myRequest.new_output_filenames
MaxDestList == 2
\* longest text, in tokens
MaxTextLen == 4
\* longest accepted / refuted list of the accept_input checks
MaxListLen == 2
\* longest myRequest.plugin_list
MaxPlugins == 2
\* longest text given to the future-reference analysis, in tokens
MaxDocLen == 4
\* largest options.nombre_prob
MaxProblems == 2

\* The pass bound of the specification's CompileLoop.  The source defines
\* no such constant (RunMe, lines 621-627).
MAX_PASSES == 3

(***************************************************************************)
(* Strings as token sequences.                                             *)
(***************************************************************************)
RECURSIVE StrReplace(_, _, _)
\* str.replace(old, new): every occurrence of the token old is replaced by
\* the token sequence new.
StrReplace(s, old, new) ==
    IF s = <<>> THEN <<>>
    ELSE (IF Head(s) = old THEN new ELSE <<Head(s)>>)
         \o StrReplace(Tail(s), old, new)

\* os.path.split(p)[1] and os.path.basename(p): what follows the last "/".
Basename(p) ==
    LET slashes == {i \in DOMAIN p : p[i] = "/"}
        last == IF slashes = {} THEN 0
                ELSE CHOOSE i \in slashes : \A j \in slashes : j <= i
    IN SubSeq(p, last + 1, Len(p))

\* Python's None for an optional name or list.
NoneValue == [is_none |-> TRUE, v |-> <<>>]
Some(x) == [is_none |-> FALSE, v |-> x]

\* Destination names a request module may give.
DestNames == {<<"a", ".pdf">>, <<"b", ".pdf">>, <<"c">>}

RECURSIVE SeqsUpTo(_, _)
SeqsUpTo(S, n) ==
    IF n = 0 THEN {<<>>}
    ELSE LET shorter == SeqsUpTo(S, n - 1)
         IN shorter \cup {Append(s, x) : s \in {t \in shorter : Len(t) = n - 1}, x \in S}

(***************************************************************************)
(* Options.__init__                                                        *)
(***************************************************************************)
pwd == <<"pwd">>
prefix == "p"
original_file == <<"doc", ".tex">>

\* The command-line flags: a record of booleans, one per recognised flag.
Arguments == [all : BOOLEAN, verif : BOOLEAN, no_compilation : BOOLEAN,
              rough_source : BOOLEAN]

pytex_filename_of(tout) ==
    IF tout = 1
    THEN pwd \o <<"/", "all-">>
         \o StrReplace(Basename(original_file), ".tex", <<"_pytex", ".tex">>)
    ELSE pwd \o <<"/", "Inter_", prefix, "-">>
         \o StrReplace(Basename(original_file), ".tex", <<"_pytex", ".tex">>)

OptionsInit(arguments, nof, nofs) ==
    [ tout |-> IF arguments.all THEN 1 ELSE 0,
      verif |-> arguments.verif,
      lotex |-> ~arguments.verif,
      simple |-> 1,
      pdf |-> FALSE,
      nocompilation |-> arguments.no_compilation \/ arguments.rough_source,
      rough_source |-> arguments.rough_source,
      new_output_filename |-> nof,
      new_output_filenames |-> nofs,
      pytex_filename |-> pytex_filename_of(IF arguments.all THEN 1 ELSE 0) ]

(***************************************************************************)
(* Options.make_final_copy and Options.copy_final_file                     *)
(***************************************************************************)
Copy(src, dst) == [src |-> src, dst |-> dst]

\* make_final_copy testing for the companion file before any copy is made
make_final_copy_check_first(pdf_output, new_filename, synctex_exists) ==
    LET output_synctex == StrReplace(pdf_output, ".pdf", <<".">>) \o <<"synctex.gz">>
        new_output_synctex == StrReplace(new_filename, ".pdf", <<".synctex.gz">>)
    IN IF ~synctex_exists
       THEN [copies |-> <<>>, raised |-> TRUE]
       ELSE [copies |-> <<Copy(pdf_output, new_filename),
                          Copy(output_synctex, new_output_synctex)>>,
             raised |-> FALSE]

\* synctex_exists is the answer of os.path.exists(output_synctex).  The
\* primary artifact is there after a pass, so shutil.copy2 succeeds.
make_final_copy(pdf_output, new_filename, synctex_exists) ==
    LET output_synctex == StrReplace(pdf_output, ".pdf", <<".">>) \o <<"synctex.gz">>
        new_output_synctex == StrReplace(new_filename, ".pdf", <<".synctex.gz">>)
    IN IF ~synctex_exists
       THEN [copies |-> <<Copy(pdf_output, new_filename)>>, raised |-> TRUE]
       ELSE [copies |-> <<Copy(pdf_output, new_filename),
                          Copy(output_synctex, new_output_synctex)>>,
             raised |-> FALSE]

pdf_output_of(opts) == StrReplace(Basename(opts.pytex_filename), ".tex", <<".pdf">>)

\* new_filenames with the default used only when neither name nor list is set
new_filenames_of_default_when_both_none(opts) ==
    IF opts.new_output_filename.is_none /\ opts.new_output_filenames.is_none
    THEN <<(<<"0-">> \o pdf_output_of(opts))>>
    ELSE (IF ~opts.new_output_filename.is_none
          THEN <<opts.new_output_filename.v>> ELSE <<>>)
         \o (IF ~opts.new_output_filenames.is_none
             THEN opts.new_output_filenames.v ELSE <<>>)

\* The list new_filenames built by copy_final_file.
new_filenames_of(opts) ==
    LET given == (IF ~opts.new_output_filename.is_none
                  THEN <<opts.new_output_filename.v>> ELSE <<>>)
                 \o (IF ~opts.new_output_filenames.is_none
                     THEN opts.new_output_filenames.v ELSE <<>>)
    IN IF given = <<>> THEN <<(<<"0-">> \o pdf_output_of(opts))>> ELSE given

RECURSIVE copy_loop(_, _, _)
\* `for f in new_filenames: self.make_final_copy(pdf_output, f)`; exists[i]
\* is what os.path.exists answers in the i-th call.  A raise ends the loop.
copy_loop(pdf_output, fs, exists) ==
    IF fs = <<>> THEN [copies |-> <<>>, raised |-> FALSE]
    ELSE LET r == make_final_copy(pdf_output, Head(fs), Head(exists))
         IN IF r.raised THEN r
            ELSE LET rest == copy_loop(pdf_output, Tail(fs), Tail(exists))
                 IN [copies |-> r.copies \o rest.copies, raised |-> rest.raised]

copy_final_file(opts, exists) ==
    copy_loop(pdf_output_of(opts), new_filenames_of(opts), exists)

(***************************************************************************)
(* Options.future_reference_verification: the scanner calls                *)
(***************************************************************************)
\* The default of the parameter `fast` (line 291); RunMe passes none.
future_reference_verification_default_fast == TRUE

ScanCall(macro, fast) == [macro |-> macro, fast |-> fast]

future_reference_scans(fast) ==
    << ScanCall("\\label", fast), ScanCall("\\ref", fast), ScanCall("\\eqref", fast) >>

(***************************************************************************)
(* Options.accept_input                                                    *)
(***************************************************************************)
\* Python's `x in list`
In(x, list) == \E i \in DOMAIN list : list[i] = x

\* accept_input without its test of the refuted list
accept_input_ignoring_refuted(filename, ok, refute) == In(filename, ok)

accept_input(filename, ok, refute) ==
    IF ~In(filename, ok) THEN FALSE
    ELSE IF In(filename, refute) THEN FALSE
    ELSE TRUE

(***************************************************************************)
(* ProduceIntermediateCode                                                 *)
(***************************************************************************)
\* Tokens of a LaTeX text.  An \input token carries the file it names and
\* the way it is written: "\input{foo}" and "\input {foo}" name the same
\* file and are different substrings.
Token(kind, filename, style) == [kind |-> kind, filename |-> filename, style |-> style]
BeginDocument == Token("\\begin{document}", "", "")
PlainText == Token("text", "", "")
Percent == Token("%", "", "")
Input(filename, style) == Token("\\input", filename, style)

Filenames == {"foo", "bar"}
InputTokens == {Input("foo", "{}"), Input("foo", " {}"), Input("bar", "{}")}
Tokens == {BeginDocument, PlainText} \cup InputTokens
Texts == SeqsUpTo(Tokens, MaxTextLen)
\* the accepted / refuted lists tried with the texts
NameLists == {<<>>, <<"foo">>, <<"bar">>, <<"foo", "bar">>}
\* the names and lists tried with accept_input alone
QueryNames == {"foo", "bar", "baz"}

\* LatexCode.find(s): offset (from 0) of the first occurrence, -1 if none
LatexCode_find(code, tok) ==
    LET hits == {i \in DOMAIN code : code[i] = tok}
    IN IF hits = {} THEN -1
       ELSE (CHOOSE i \in hits : \A j \in hits : i <= j) - 1

\* LatexCode.replace(a, b): str.replace on the text of the code
LatexCode_replace(code, a, b) == StrReplace(code, a, b)

\* codeLaTeX.search_use_of_macro("\input", 1) and Occurrence.analyse():
\* the occurrences in text order, each with its offset, its substring as
\* written and the file it names.
Occurrence(code, i) ==
    [position |-> i - 1, as_written |-> code[i], filename |-> code[i].filename]

search_use_of_input(code) ==
    LET idx == SelectSeq([i \in DOMAIN code |-> i],
                         LAMBDA i : code[i].kind = "\\input")
    IN [k \in DOMAIN idx |-> Occurrence(code, idx[k])]

RECURSIVE suppress_loop_inverted(_, _, _, _, _)
\* the loop replacing the accepted occurrences instead of the others
suppress_loop_inverted(list_input, begin_document, codeLaTeX, ok, refute) ==
    IF list_input = <<>> THEN codeLaTeX
    ELSE LET A == Head(list_input)
             next == IF A.position > begin_document
                        /\ accept_input(A.filename, ok, refute)
                     THEN LatexCode_replace(codeLaTeX, A.as_written, <<Percent>>)
                     ELSE codeLaTeX
         IN suppress_loop_inverted(Tail(list_input), begin_document, next, ok, refute)

RECURSIVE suppress_loop_comment_out(_, _, _, _, _)
\* the loop putting "%" in front of the occurrence instead of replacing it
suppress_loop_comment_out(list_input, begin_document, codeLaTeX, ok, refute) ==
    IF list_input = <<>> THEN codeLaTeX
    ELSE LET A == Head(list_input)
             next == IF A.position > begin_document
                        /\ ~accept_input(A.filename, ok, refute)
                     THEN LatexCode_replace(codeLaTeX, A.as_written,
                                            <<Percent, A.as_written>>)
                     ELSE codeLaTeX
         IN suppress_loop_comment_out(Tail(list_input), begin_document, next, ok, refute)

RECURSIVE suppress_loop(_, _, _, _, _)
\* `for occurrence in list_input:` of ProduceIntermediateCode
suppress_loop(list_input, begin_document, codeLaTeX, ok, refute) ==
    IF list_input = <<>> THEN codeLaTeX
    ELSE LET A == Head(list_input)
             next == IF A.position > begin_document
                        /\ ~accept_input(A.filename, ok, refute)
                     THEN LatexCode_replace(codeLaTeX, A.as_written, <<Percent>>)
                     ELSE codeLaTeX
         IN suppress_loop(Tail(list_input), begin_document, next, ok, refute)

ProduceIntermediateCode(text_before_pytex, tout, ok, refute) ==
    LET codeLaTeX == text_before_pytex
    IN IF tout = 0
       THEN suppress_loop(search_use_of_input(codeLaTeX),
                          LatexCode_find(codeLaTeX, BeginDocument),
                          codeLaTeX, ok, refute)
       ELSE codeLaTeX

(***************************************************************************)
(* The text operations as actions                                          *)
(***************************************************************************)
AcceptInit ==
    /\ text = <<>>
    /\ ok_filenames_list \in SeqsUpTo(QueryNames, MaxListLen)
    /\ refute_filenames_list \in SeqsUpTo(QueryNames, MaxListLen)
    /\ phase = "start"
    /\ query = ""
    /\ accepted = FALSE
    /\ out1 = <<>>
    /\ out2 = <<>>

AcceptInput ==
    /\ phase = "start"
    /\ \E filename \in QueryNames :
          /\ query' = filename
          /\ accepted' = accept_input(filename, ok_filenames_list,
                                      refute_filenames_list)
    /\ phase' = "queried"
    /\ UNCHANGED <<text, ok_filenames_list, refute_filenames_list, out1, out2>>
    /\ UNCHANGED not_text

TextInit ==
    /\ text \in Texts
    /\ ok_filenames_list \in NameLists
    /\ refute_filenames_list \in NameLists
    /\ phase = "start"
    /\ query = ""
    /\ accepted = FALSE
    /\ out1 = <<>>
    /\ out2 = <<>>

\* ProduceIntermediateCode(options) on options.text_before_pytex
Suppress ==
    /\ phase = "start"
    /\ out1' = ProduceIntermediateCode(text, options.tout, ok_filenames_list,
                                       refute_filenames_list)
    /\ phase' = "suppressed"
    /\ UNCHANGED <<text, ok_filenames_list, refute_filenames_list, query,
                   accepted, out2>>
    /\ UNCHANGED not_text

\* ProduceIntermediateCode run on its own output
SuppressAgain ==
    /\ phase = "suppressed"
    /\ out2' = ProduceIntermediateCode(out1, options.tout, ok_filenames_list,
                                       refute_filenames_list)
    /\ phase' = "again"
    /\ UNCHANGED <<text, ok_filenames_list, refute_filenames_list, query,
                   accepted, out1>>
    /\ UNCHANGED not_text

(***************************************************************************)
(* Options.future_reference_verification: the analysis                     *)
(***************************************************************************)
\* A use of \label, \ref or \eqref in the text: the macro, its argument and
\* the way it is written ("\label{a}" and "\label {a}" define the same label).
MacroUse(macro, argument, style) ==
    [macro |-> macro, argument |-> argument, style |-> style]
NoUse == MacroUse("", "", "")

DocTokens == { MacroUse("\\label", "a", "{}"), MacroUse("\\label", "a", " {}"),
               MacroUse("\\label", "b", "{}"),
               MacroUse("\\ref", "a", "{}"), MacroUse("\\ref", "b", "{}"),
               MacroUse("\\eqref", "a", "{}") }
Docs == SeqsUpTo(DocTokens, MaxDocLen)

\* rough_code.search_use_of_macro(macro, 1, fast=fast): the occurrences of
\* the macro in text order, each with its offset, its substring as written
\* and its arguments.
search_use_of_macro(code, macro) ==
    LET idx == SelectSeq([i \in DOMAIN code |-> i],
                         LAMBDA i : code[i].macro = macro)
    IN [k \in DOMAIN idx |->
           [position |-> idx[k] - 1, as_written |-> code[idx[k]],
            arguments |-> <<code[idx[k]].argument>>]]

\* one line given to output()
ReportLine(kind, label, written) == [kind |-> kind, label |-> label, written |-> written]

\* the references without the \eqref occurrences
references_of_ref_only(ref, eqref) == ref

\* references = ref[:]; references.extend(eqref)
references_of(ref, eqref) == ref \o eqref

\* ref_dict after the three loops of lines 323-336: a key for every label
\* defined or referred to, holding the references to it in list order
ref_dict_of(labels, references) ==
    LET keys == {labels[i].arguments[1] : i \in DOMAIN labels}
                \cup {references[i].arguments[1] : i \in DOMAIN references}
    IN [label \in keys |->
           SelectSeq(references, LAMBDA occ : occ.arguments[1] = label)]

\* is label a key of label_dict (a sequence of entries in insertion order)
HasKey(label_dict, label) == \E i \in DOMAIN label_dict : label_dict[i].label = label
Lookup(label_dict, label) ==
    label_dict[CHOOSE i \in DOMAIN label_dict : label_dict[i].label = label].occ

RECURSIVE label_dict_loop_overwrite(_, _)
\* the loop keeping the last definition of a label without raising
label_dict_loop_overwrite(labels, label_dict) ==
    IF labels = <<>> THEN [raised |-> FALSE, label_dict |-> label_dict, report |-> <<>>]
    ELSE LET occ == Head(labels)
             label == occ.arguments[1]
             entry == [label |-> label, occ |-> occ]
             updated == IF HasKey(label_dict, label)
                        THEN [i \in DOMAIN label_dict |->
                                 IF label_dict[i].label = label THEN entry
                                 ELSE label_dict[i]]
                        ELSE Append(label_dict, entry)
         IN label_dict_loop_overwrite(Tail(labels), updated)

RECURSIVE label_dict_loop(_, _)
\* `for occ in labels:` of lines 338-345
label_dict_loop(labels, label_dict) ==
    IF labels = <<>> THEN [raised |-> FALSE, label_dict |-> label_dict, report |-> <<>>]
    ELSE LET occ == Head(labels)
             label == occ.arguments[1]
         IN IF HasKey(label_dict, label)
            THEN [raised |-> TRUE, label_dict |-> label_dict,
                  report |-> << ReportLine("used multiple times", label, NoUse),
                                ReportLine("last time I see that", "", NoUse),
                                ReportLine("as_written", "", occ.as_written) >>]
            ELSE label_dict_loop(Tail(labels),
                                 Append(label_dict, [label |-> label, occ |-> occ]))

\* get_future_warning(rough_code, label_dict, tested_label, ref, myRequest):
\* a warning when the reference comes before the definition of its label
get_future_warning(label_dict, tested_label, ref) ==
    LET definition == Lookup(label_dict, tested_label)
    IN IF ref.position < definition.position
       THEN Some([label |-> tested_label, ref |-> ref, definition |-> definition])
       ELSE NoneValue

RECURSIVE warnings_of_label(_, _, _)
\* `for ref in ref_dict[tested_label]:`
warnings_of_label(label_dict, tested_label, refs) ==
    IF refs = <<>> THEN <<>>
    ELSE LET warning == get_future_warning(label_dict, tested_label, Head(refs))
         IN (IF ~warning.is_none THEN <<warning.v>> ELSE <<>>)
            \o warnings_of_label(label_dict, tested_label, Tail(refs))

RECURSIVE future_warnings_loop(_, _, _)
\* `for tested_label in label_dict.keys():` of lines 362-369
future_warnings_loop(label_dict, keys, ref_dict) ==
    IF keys = <<>> THEN <<>>
    ELSE warnings_of_label(label_dict, Head(keys).label, ref_dict[Head(keys).label])
         \o future_warnings_loop(label_dict, Tail(keys), ref_dict)

RECURSIVE report_loop_count_all(_, _)
\* the loop counting every warning, printed or not
report_loop_count_all(future_warnings, printed) ==
    IF future_warnings = <<>>
    THEN [predicate_calls |-> <<>>, outputs |-> <<>>, total_futur |-> 0]
    ELSE LET warning == Head(future_warnings)
             rest == report_loop_count_all(Tail(future_warnings), printed)
         IN [predicate_calls |-> <<warning>> \o rest.predicate_calls,
             outputs |-> (IF warning.ref.position \in printed
                          THEN <<warning>> ELSE <<>>) \o rest.outputs,
             total_futur |-> 1 + rest.total_futur]

RECURSIVE report_loop(_, _)
\* `for warning in future_warnings:` of lines 373-379; printed is the set
\* of reference offsets myRequest.has_to_be_printed accepts
report_loop(future_warnings, printed) ==
    IF future_warnings = <<>>
    THEN [predicate_calls |-> <<>>, outputs |-> <<>>, total_futur |-> 0]
    ELSE LET warning == Head(future_warnings)
             rest == report_loop(Tail(future_warnings), printed)
         IN IF warning.ref.position \in printed
            THEN [predicate_calls |-> <<warning>> \o rest.predicate_calls,
                  outputs |-> <<warning>> \o rest.outputs,
                  total_futur |-> 1 + rest.total_futur]
            ELSE [predicate_calls |-> <<warning>> \o rest.predicate_calls,
                  outputs |-> rest.outputs,
                  total_futur |-> rest.total_futur]

NoAnalysis ==
    [done |-> FALSE, raised |-> FALSE, report |-> <<>>, future_warnings |-> <<>>,
     predicate_calls |-> <<>>, outputs |-> <<>>, total_printed |-> FALSE,
     total_futur |-> 0]

\* lines 309-380 on the text code, with the predicate accepting `printed`
future_reference_verification(code, printed) ==
    LET labels == search_use_of_macro(code, "\\label")
        ref == search_use_of_macro(code, "\\ref")
        eqref == search_use_of_macro(code, "\\eqref")
        references == references_of(ref, eqref)
        ref_dict == ref_dict_of(labels, references)
        built == label_dict_loop(labels, <<>>)
    IN IF built.raised
       THEN [done |-> TRUE, raised |-> TRUE, report |-> built.report,
             future_warnings |-> <<>>, predicate_calls |-> <<>>, outputs |-> <<>>,
             total_printed |-> FALSE, total_futur |-> 0]
       ELSE LET future_warnings ==
                    future_warnings_loop(built.label_dict, built.label_dict, ref_dict)
                reported == report_loop(future_warnings, printed)
            IN [done |-> TRUE, raised |-> FALSE, report |-> <<>>,
                future_warnings |-> future_warnings,
                predicate_calls |-> reported.predicate_calls,
                outputs |-> reported.outputs,
                total_printed |-> TRUE, total_futur |-> reported.total_futur]

FutureIdle ==
    /\ rough_code = <<>>
    /\ has_to_be_printed = {}
    /\ analysis = NoAnalysis

FutureInit ==
    /\ rough_code \in Docs
    /\ has_to_be_printed \in SUBSET (0..(MaxDocLen - 1))
    /\ analysis = NoAnalysis

\* options.future_reference_verification(options) on the assembled text
FutureAnalysis ==
    /\ ~analysis.done
    /\ analysis' = future_reference_verification(rough_code, has_to_be_printed)
    /\ UNCHANGED <<rough_code, has_to_be_printed>>
    /\ UNCHANGED <<run_vars, text_vars, plugin_vars, apply_vars>>

(***************************************************************************)
(* Options.apply_plugin                                                    *)
(***************************************************************************)
HookNames == {"options", "before_pytex", "after_pytex", "before_compilation",
              "after_compilation"}
\* the hook names apply_plugin is called with (lines 519, 525, 546, 634)
AppliedHooks == HookNames \ {"options"}

\* what the i-th plugin returns for the text A: A with the plugin's mark
PluginMark(i) == Token("plugin", "", ToString(i))
PluginResult(i, A) == Append(A, PluginMark(i))

PluginCall(i, hook_name, input, output) ==
    [plugin |-> i, hook_name |-> hook_name, input |-> input, output |-> output]

RECURSIVE apply_plugin_loop_unchained(_, _, _, _, _, _)
\* the loop giving every plugin the text apply_plugin was called with
apply_plugin_loop_unchained(A, hook_name, plugins, fail_at, i, A0) ==
    IF i > Len(plugins) THEN [A |-> A, calls |-> <<>>, raised |-> FALSE]
    ELSE IF plugins[i] # hook_name
         THEN apply_plugin_loop_unchained(A, hook_name, plugins, fail_at, i + 1, A0)
    ELSE IF i = fail_at
         THEN [A |-> A, calls |-> <<PluginCall(i, hook_name, A0, <<>>)>>, raised |-> TRUE]
    ELSE LET out == IF hook_name \in {"before_compilation", "after_compilation"}
                    THEN A ELSE PluginResult(i, A0)
             rest == apply_plugin_loop_unchained(out, hook_name, plugins, fail_at, i + 1, A0)
         IN [A |-> rest.A,
             calls |-> <<PluginCall(i, hook_name, A0, out)>> \o rest.calls,
             raised |-> rest.raised]

RECURSIVE apply_plugin_loop_swallow(_, _, _, _, _, _)
\* the loop going on with the next plugin when one raises
apply_plugin_loop_swallow(A, hook_name, plugins, fail_at, i, A0) ==
    IF i > Len(plugins) THEN [A |-> A, calls |-> <<>>, raised |-> FALSE]
    ELSE IF plugins[i] # hook_name
         THEN apply_plugin_loop_swallow(A, hook_name, plugins, fail_at, i + 1, A0)
    ELSE LET out == IF i = fail_at THEN <<>>
                    ELSE IF hook_name \in {"before_compilation", "after_compilation"}
                    THEN A ELSE PluginResult(i, A)
             next == IF i = fail_at THEN A ELSE out
             rest == apply_plugin_loop_swallow(next, hook_name, plugins, fail_at, i + 1, A0)
         IN [A |-> rest.A,
             calls |-> <<PluginCall(i, hook_name, A, out)>> \o rest.calls,
             raised |-> rest.raised]

RECURSIVE apply_plugin_loop(_, _, _, _, _, _)
\* `for plugin in self.myRequest.plugin_list:` from the i-th plugin on; a
\* plugin that raises ends the loop, nothing catches its exception.  A0 is
\* the text apply_plugin was called with.
apply_plugin_loop(A, hook_name, plugins, fail_at, i, A0) ==
    IF i > Len(plugins) THEN [A |-> A, calls |-> <<>>, raised |-> FALSE]
    ELSE IF plugins[i] # hook_name
         THEN apply_plugin_loop(A, hook_name, plugins, fail_at, i + 1, A0)
    ELSE IF i = fail_at
         THEN [A |-> A, calls |-> <<PluginCall(i, hook_name, A, <<>>)>>, raised |-> TRUE]
    ELSE LET out == IF hook_name \in {"before_compilation", "after_compilation"}
                    THEN A ELSE PluginResult(i, A)
             rest == apply_plugin_loop(out, hook_name, plugins, fail_at, i + 1, A0)
         IN [A |-> rest.A,
             calls |-> <<PluginCall(i, hook_name, A, out)>> \o rest.calls,
             raised |-> rest.raised]

apply_plugin(A, hook_name, plugins, fail_at) ==
    apply_plugin_loop(A, hook_name, plugins, fail_at, 1, A)

NoPlugins ==
    /\ plugin_list = <<>>
    /\ failing = 0

PluginsInit ==
    /\ plugin_list \in SeqsUpTo(HookNames, MaxPlugins)
    /\ failing \in 0..MaxPlugins
    /\ failing <= Len(plugin_list)

NotApplied == [done |-> FALSE, given |-> <<>>, A |-> <<>>, calls |-> <<>>, raised |-> FALSE]

ApplyIdle ==
    /\ stage = ""
    /\ applied = NotApplied

\* self.apply_plugin(A, hook_name): A is a text for the text hooks and ""
\* for the compilation hooks
ApplyPlugin ==
    /\ ~applied.done
    /\ \E hook_name \in AppliedHooks :
          LET A == IF hook_name \in {"before_compilation", "after_compilation"}
                   THEN <<>> ELSE <<PlainText>>
              r == apply_plugin(A, hook_name, plugin_list, failing)
          IN /\ stage' = hook_name
             /\ applied' = [done |-> TRUE, given |-> A, A |-> r.A,
                            calls |-> r.calls, raised |-> r.raised]
    /\ UNCHANGED <<run_vars, text_vars, plugin_vars, future_vars>>

(***************************************************************************)
(* Options.pytex_file, Options.compilation, verif_grep                     *)
(***************************************************************************)
\* One step of the run as it is seen from outside: a plugin call (with its
\* hook name, its index in plugin_list, the text it got and the text it
\* returned) or a call of one of the functions named below.
Event(kind, hook_name, plugin, input, output) ==
    [kind |-> kind, hook_name |-> hook_name, plugin |-> plugin,
     input |-> input, output |-> output]
Step(kind) == Event(kind, "", 0, <<>>, <<>>)

CallEvents(calls) ==
    [k \in DOMAIN calls |->
        Event("plugin", calls[k].hook_name, calls[k].plugin,
              calls[k].input, calls[k].output)]

\* FileToText(self.original_file): the hand-authored source
original_text == <<Input("foo", "{}"), BeginDocument, Input("foo", " {}"), PlainText>>

\* what line 534 puts after \begin{document}
UseCorrectionFile == Token("\\UseCorrectionFile", "", "")

\* _pytex_file, text_before_pytex, _intermediate_code and the saved text
NoPytexFile ==
    [built |-> FALSE, filename |-> NoneValue, text_before_pytex |-> <<>>,
     intermediate_code |-> NoneValue, saved |-> <<>>]

\* a call of pytex_file that returns, with the filename it returns
PytexFileReturn(filename) == Event("pytex_file", "", 0, <<>>, filename)

\* Options.intermediate_code
intermediate_code(pt, tout, ok, refute) ==
    IF pt.intermediate_code.is_none
    THEN ProduceIntermediateCode(pt.text_before_pytex, tout, ok, refute)
    ELSE pt.intermediate_code.v

\* pytex_file saving the suppressed text before the after_pytex plugins run
pytex_file_save_before_after_pytex(pt, tout, ok, refute, plugins, fail_at) ==
    IF pt.built THEN [pytex |-> pt, events |-> <<PytexFileReturn(pt.filename.v)>>,
                      raised |-> FALSE]
    ELSE
    LET before == apply_plugin(original_text, "before_pytex", plugins, fail_at)
    IN IF before.raised
       THEN [pytex |-> pt, events |-> CallEvents(before.calls), raised |-> TRUE]
       ELSE
       LET pt1 == [pt EXCEPT !.text_before_pytex = before.A]
           code == intermediate_code(pt1, tout, ok, refute)
           pt2 == [pt1 EXCEPT !.intermediate_code = Some(code)]
           suppress == Event("ProduceIntermediateCode", "", 0, before.A, code)
           A == StrReplace(code, BeginDocument,
                           <<BeginDocument, UseCorrectionFile>>)
           after == apply_plugin(code, "after_pytex", plugins, fail_at)
       IN [pytex |-> [pt2 EXCEPT !.built = TRUE, !.saved = A,
                                 !.filename = Some(pytex_filename_of(tout))],
           events |-> CallEvents(before.calls)
                      \o <<suppress, Event("save", "", 0, A, <<>>)>>
                      \o CallEvents(after.calls)
                      \o (IF after.raised THEN <<>>
                          ELSE <<PytexFileReturn(pytex_filename_of(tout))>>),
           raised |-> after.raised]

\* Options.pytex_file: the new state of the file, the events of the call
\* and whether a plugin raised
pytex_file(pt, tout, ok, refute, plugins, fail_at) ==
    IF pt.built THEN [pytex |-> pt, events |-> <<PytexFileReturn(pt.filename.v)>>,
                      raised |-> FALSE]
    ELSE
    LET before == apply_plugin(original_text, "before_pytex", plugins, fail_at)
    IN IF before.raised
       THEN [pytex |-> pt, events |-> CallEvents(before.calls), raised |-> TRUE]
       ELSE
       LET pt1 == [pt EXCEPT !.text_before_pytex = before.A]
           code == intermediate_code(pt1, tout, ok, refute)
           pt2 == [pt1 EXCEPT !.intermediate_code = Some(code)]
           suppress == Event("ProduceIntermediateCode", "", 0, before.A, code)
           after == apply_plugin(code, "after_pytex", plugins, fail_at)
       IN IF after.raised
          THEN [pytex |-> pt2,
                events |-> CallEvents(before.calls) \o <<suppress>>
                           \o CallEvents(after.calls),
                raised |-> TRUE]
          ELSE
          LET A == StrReplace(after.A, BeginDocument,
                              <<BeginDocument, UseCorrectionFile>>)
          IN [pytex |-> [pt2 EXCEPT !.built = TRUE, !.saved = A,
                                    !.filename = Some(pytex_filename_of(tout))],
              events |-> CallEvents(before.calls) \o <<suppress>>
                         \o CallEvents(after.calls)
                         \o <<Event("save", "", 0, A, <<>>),
                               PytexFileReturn(pytex_filename_of(tout))>>,
              raised |-> FALSE]

\* compilation building the principal document anew at each call
compilation_rebuilding(pt, tout, ok, refute, plugins, fail_at) ==
    LET before == apply_plugin(<<>>, "before_compilation", plugins, fail_at)
    IN IF before.raised
       THEN [pytex |-> pt, events |-> CallEvents(before.calls), raised |-> TRUE]
       ELSE LET file == pytex_file(NoPytexFile, tout, ok, refute, plugins, fail_at)
            IN [pytex |-> file.pytex,
                events |-> CallEvents(before.calls) \o file.events,
                raised |-> file.raised]

\* Options.compilation: the before_compilation plugins, then pytex_file
compilation(pt, tout, ok, refute, plugins, fail_at) ==
    LET before == apply_plugin(<<>>, "before_compilation", plugins, fail_at)
    IN IF before.raised
       THEN [pytex |-> pt, events |-> CallEvents(before.calls), raised |-> TRUE]
       ELSE LET file == pytex_file(pt, tout, ok, refute, plugins, fail_at)
            IN [pytex |-> file.pytex,
                events |-> CallEvents(before.calls) \o file.events,
                raised |-> file.raised]

RECURSIVE options_plugins_loop(_, _, _)
\* `for plugin in [x for x in plugin_list if x.hook_name == "options"]:
\*      plugin(self)` of LireFichier, from the i-th plugin on
options_plugins_loop(plugins, fail_at, i) ==
    IF i > Len(plugins) THEN [calls |-> <<>>, raised |-> FALSE]
    ELSE IF plugins[i] # "options" THEN options_plugins_loop(plugins, fail_at, i + 1)
    ELSE IF i = fail_at
         THEN [calls |-> <<PluginCall(i, "options", <<>>, <<>>)>>, raised |-> TRUE]
    ELSE LET rest == options_plugins_loop(plugins, fail_at, i + 1)
         IN [calls |-> <<PluginCall(i, "options", <<>>, <<>>)>> \o rest.calls,
             raised |-> rest.raised]

\* the lines verif_grep gives to options.output
verif_grep(nombre_prob) ==
    (IF nombre_prob > 1 THEN <<"Still problems to be fixed">> ELSE <<>>)
    \o (IF nombre_prob = 1 THEN <<"Only one problem to be fixed">> ELSE <<>>)
    \o <<"FileToLogCode">>

(***************************************************************************)
(* RunMe                                                                   *)
(***************************************************************************)
RunStart ==
    /\ pc = "LireFichier"
    /\ branch = "none"
    /\ passes = 0
    /\ copy_calls = 0
    /\ log_checks = 0
    /\ on = TRUE
    /\ copy_log = <<>>
    /\ copy_status = "none"
    /\ new_filenames = <<>>
    /\ rough_calls = <<>>
    /\ scan_calls = <<>>
    /\ summaries = 0
    /\ summary = <<>>
    /\ events = <<>>
    /\ error = "none"
    /\ pytex = NoPytexFile

RunInit ==
    /\ \E arguments \in Arguments :
       \E nof \in {NoneValue} \cup {Some(d) : d \in DestNames} :
       \E nofs \in {NoneValue} \cup {Some(l) : l \in SeqsUpTo(DestNames, MaxDestList)} :
          options = OptionsInit(arguments, nof, nofs)
    /\ RunStart

\* a run with the default destination of the artifact
RunInitDefault ==
    /\ \E arguments \in Arguments :
          options = OptionsInit(arguments, NoneValue, NoneValue)
    /\ RunStart

RunIdle ==
    /\ \E all \in BOOLEAN :
          options = OptionsInit([all |-> all, verif |-> FALSE,
                                 no_compilation |-> FALSE, rough_source |-> FALSE],
                                NoneValue, NoneValue)
    /\ pc = "idle"
    /\ branch = "none"
    /\ passes = 0
    /\ copy_calls = 0
    /\ log_checks = 0
    /\ on = TRUE
    /\ copy_log = <<>>
    /\ copy_status = "none"
    /\ new_filenames = <<>>
    /\ rough_calls = <<>>
    /\ scan_calls = <<>>
    /\ summaries = 0
    /\ summary = <<>>
    /\ events = <<>>
    /\ error = "none"
    /\ pytex = NoPytexFile

TextIdle ==
    /\ text = <<>>
    /\ ok_filenames_list = <<>>
    /\ refute_filenames_list = <<>>
    /\ phase = "idle"
    /\ query = ""
    /\ accepted = FALSE
    /\ out1 = <<>>
    /\ out2 = <<>>

\* self.pytex_file() as called from the step at hand
PytexFileNow ==
    pytex_file(pytex, options.tout, ok_filenames_list, refute_filenames_list,
               plugin_list, failing)

\* LireFichier without its loop over the "options" plugins
LireFichier_without_options_plugins ==
    /\ pc = "LireFichier"
    /\ pc' = "prerequisites"
    /\ UNCHANGED <<options, branch, passes, copy_calls, log_checks, on, copy_log,
                   copy_status, new_filenames, rough_calls, scan_calls, summaries,
                   summary, events, error, pytex>>
    /\ UNCHANGED not_run

\* t = Options(sys.argv[1:]) (line 645): LireFichier loads the request
\* module and calls its "options" plugins (lines 472-473).  What such a
\* plugin does to the Options object is not modelled.
LireFichier ==
    /\ pc = "LireFichier"
    /\ LET r == options_plugins_loop(plugin_list, failing, 1)
       IN /\ events' = events \o CallEvents(r.calls)
          /\ error' = IF r.raised THEN "plugin" ELSE error
          /\ pc' = IF r.raised THEN "aborted" ELSE "prerequisites"
    /\ UNCHANGED <<options, branch, passes, copy_calls, log_checks, on, copy_log,
                   copy_status, new_filenames, rough_calls, scan_calls, summaries,
                   summary, pytex>>
    /\ UNCHANGED not_run

\* options.myRequest.run_prerequistes(options), AttributeError swallowed
RunPrerequisites ==
    /\ pc = "prerequisites"
    /\ pc' = "rough_source"
    /\ events' = Append(events, Step("run_prerequistes"))
    /\ UNCHANGED <<options, branch, passes, copy_calls, log_checks, on, copy_log,
                   copy_status, new_filenames, rough_calls, scan_calls, summaries,
                   summary, error, pytex>>
    /\ UNCHANGED not_run

\* if options.Sortie.rough_source: options.create_rough_source(...)
\* CreateRoughCode calls options.rough_code(options), fast defaulting to
\* False; rough_code starts with options.pytex_file().
CreateRoughSource ==
    /\ pc = "rough_source"
    /\ IF options.rough_source
       THEN LET file == PytexFileNow
            IN /\ pytex' = file.pytex
               /\ error' = IF file.raised THEN "plugin" ELSE error
               /\ pc' = IF file.raised THEN "aborted" ELSE "simple_test"
               /\ events' = IF file.raised THEN events \o file.events
                            ELSE events \o file.events \o <<Step("rough_code")>>
               /\ rough_calls' = IF file.raised THEN rough_calls
                                 ELSE Append(rough_calls, FALSE)
       ELSE /\ pc' = "simple_test"
            /\ UNCHANGED <<pytex, error, events, rough_calls>>
    /\ UNCHANGED <<options, branch, passes, copy_calls, log_checks, on, copy_log,
                   copy_status, new_filenames, scan_calls, summaries, summary>>
    /\ UNCHANGED not_run

\* The condition of line 617.  Options.__init__ clears lotex only together
\* with setting verif (--verif), so no command line makes it true; the
\* branch is kept as the code has it.
SimpleTest ==
    /\ pc = "simple_test"
    /\ IF (options.verif = FALSE) /\ (~options.lotex) /\ (options.simple = 1)
          /\ (options.pdf = FALSE)
       THEN pc' = "latex_more" /\ branch' = "simple"
       ELSE pc' = "lotex_test" /\ branch' = branch
    /\ UNCHANGED <<options, passes, copy_calls, log_checks, on, copy_log,
                   copy_status, new_filenames, rough_calls, scan_calls, summaries,
                   summary, events, error, pytex>>
    /\ UNCHANGED not_run

\* the loop entered whatever Compil.lotex is
LotexTest_ignoring_lotex ==
    /\ pc = "lotex_test"
    /\ pc' = "latex_more"
    /\ branch' = "loop"
    /\ on' = TRUE
    /\ UNCHANGED <<options, passes, copy_calls, log_checks, copy_log,
                   copy_status, new_filenames, rough_calls, scan_calls, summaries,
                   summary, events, error, pytex>>
    /\ UNCHANGED not_run

\* `if options.Compil.lotex: on = True; while on:` (first evaluation)
LotexTest ==
    /\ pc = "lotex_test"
    /\ IF options.lotex
       THEN pc' = "latex_more" /\ branch' = "loop" /\ on' = TRUE
       ELSE pc' = "verif_grep" /\ branch' = branch /\ on' = on
    /\ UNCHANGED <<options, passes, copy_calls, log_checks, copy_log,
                   copy_status, new_filenames, rough_calls, scan_calls, summaries,
                   summary, events, error, pytex>>
    /\ UNCHANGED not_run

\* the pass of the loop without its copy_final_file
LatexMore_without_copy ==
    /\ pc = "latex_more"
    /\ passes' = passes + 1
    /\ pc' = IF branch = "simple" THEN "lotex_test" ELSE "log_check"
    /\ events' = Append(events, Step("latex_more"))
    /\ UNCHANGED <<options, branch, copy_calls, log_checks, on, copy_log,
                   copy_status, new_filenames, rough_calls, scan_calls, summaries,
                   summary, error, pytex>>
    /\ UNCHANGED not_run

\* options.compilation().latex_more()
LatexMore ==
    /\ pc = "latex_more"
    /\ LET c == compilation(pytex, options.tout, ok_filenames_list,
                            refute_filenames_list, plugin_list, failing)
       IN /\ pytex' = c.pytex
          /\ error' = IF c.raised THEN "plugin" ELSE error
          /\ pc' = IF c.raised THEN "aborted" ELSE "copy_final_file"
          /\ passes' = IF c.raised THEN passes ELSE passes + 1
          /\ events' = IF c.raised THEN events \o c.events
                       ELSE events \o c.events \o <<Step("latex_more")>>
    /\ UNCHANGED <<options, branch, copy_calls, log_checks, on, copy_log,
                   copy_status, new_filenames, rough_calls, scan_calls, summaries,
                   summary>>
    /\ UNCHANGED not_run

\* options.copy_final_file(); a NameError of make_final_copy is caught
\* nowhere in RunMe and ends the run.
CopyFinalFile ==
    /\ pc = "copy_final_file"
    /\ \E exists \in [1..Len(new_filenames_of(options)) -> BOOLEAN] :
          LET r == copy_final_file(options, exists)
          IN /\ copy_log' = r.copies
             /\ copy_status' = IF r.raised THEN "raised" ELSE "ok"
             /\ error' = IF r.raised THEN "NameError" ELSE error
             /\ pc' = IF r.raised THEN "aborted"
                      ELSE IF branch = "simple" THEN "lotex_test"
                      ELSE "log_check"
    /\ new_filenames' = new_filenames_of(options)
    /\ copy_calls' = copy_calls + 1
    /\ events' = Append(events, Step("copy_final_file"))
    /\ UNCHANGED <<options, branch, passes, log_checks, on, rough_calls,
                   scan_calls, summaries, summary, pytex>>
    /\ UNCHANGED not_run

\* the loop going on while the log asks for no rerun
LogCheck_inverted ==
    /\ pc = "log_check"
    /\ \E rerun \in BOOLEAN :
          /\ ~rerun => passes < PassCap
          /\ on' = rerun
          /\ pc' = IF ~rerun THEN "latex_more" ELSE "verif_grep"
    /\ log_checks' = log_checks + 1
    /\ events' = Append(events, Step("rerun_to_get_cross_references"))
    /\ UNCHANGED <<options, branch, passes, copy_calls, copy_log, copy_status,
                   new_filenames, rough_calls, scan_calls, summaries, summary,
                   error, pytex>>
    /\ UNCHANGED not_run

\* x = FileToLogCode(options, stop_on_first=True)
\* on = x.rerun_to_get_cross_references(stop_on_first=True); `while on`
LogCheck ==
    /\ pc = "log_check"
    /\ \E rerun \in BOOLEAN :
          /\ rerun => passes < PassCap
          /\ on' = rerun
          /\ pc' = IF rerun THEN "latex_more" ELSE "verif_grep"
    /\ log_checks' = log_checks + 1
    /\ events' = Append(events, Step("rerun_to_get_cross_references"))
    /\ UNCHANGED <<options, branch, passes, copy_calls, copy_log, copy_status,
                   new_filenames, rough_calls, scan_calls, summaries, summary,
                   error, pytex>>
    /\ UNCHANGED not_run

\* verif_grep taking a positive problem count for a fatal error
VerifGrep_fatal_on_problems ==
    /\ pc = "verif_grep"
    /\ IF ~options.nocompilation /\ ~options.verif
       THEN \E nombre_prob \in 0..MaxProblems :
               /\ summaries' = summaries + 1
               /\ summary' = verif_grep(nombre_prob)
               /\ events' = Append(events, Step("verif_grep"))
               /\ error' = IF nombre_prob > 0 THEN "problems" ELSE error
               /\ pc' = IF nombre_prob > 0 THEN "aborted" ELSE "after_compilation"
       ELSE /\ pc' = "after_compilation"
            /\ UNCHANGED <<summaries, summary, events, error>>
    /\ UNCHANGED <<options, branch, passes, copy_calls, log_checks, on, copy_log,
                   copy_status, new_filenames, rough_calls, scan_calls, pytex>>
    /\ UNCHANGED not_run

\* if not nocompilation and not verif: verif_grep(options); nombre_prob is
\* what options.nombre_prob holds at that moment
VerifGrep ==
    /\ pc = "verif_grep"
    /\ IF ~options.nocompilation /\ ~options.verif
       THEN \E nombre_prob \in 0..MaxProblems :
               /\ summaries' = summaries + 1
               /\ summary' = verif_grep(nombre_prob)
               /\ events' = Append(events, Step("verif_grep"))
       ELSE UNCHANGED <<summaries, summary, events>>
    /\ pc' = "after_compilation"
    /\ UNCHANGED <<options, branch, passes, copy_calls, log_checks, on, copy_log,
                   copy_status, new_filenames, rough_calls, scan_calls, error,
                   pytex>>
    /\ UNCHANGED not_run

\* lines 630-634: without --no-compilation, the after_compilation plugins
AfterCompilation ==
    /\ pc = "after_compilation"
    /\ IF options.nocompilation
       THEN /\ pc' = "verif_test"
            /\ UNCHANGED <<events, error>>
       ELSE LET r == apply_plugin(<<>>, "after_compilation", plugin_list, failing)
            IN /\ events' = events \o CallEvents(r.calls)
               /\ error' = IF r.raised THEN "plugin" ELSE error
               /\ pc' = IF r.raised THEN "aborted" ELSE "verif_test"
    /\ UNCHANGED <<options, branch, passes, copy_calls, log_checks, on, copy_log,
                   copy_status, new_filenames, rough_calls, scan_calls, summaries,
                   summary, pytex>>
    /\ UNCHANGED not_run

\* if options.Compil.verif: options.future_reference_verification(options);
\* the analysis starts with rough_code(options, fast=False), which starts
\* with options.pytex_file()
FutureReferenceVerification ==
    /\ pc = "verif_test"
    /\ IF options.verif
       THEN LET file == PytexFileNow
            IN /\ pytex' = file.pytex
               /\ error' = IF file.raised THEN "plugin" ELSE error
               /\ pc' = IF file.raised THEN "aborted" ELSE "done"
               /\ events' = events \o <<Step("future_reference_verification")>>
                            \o file.events
                            \o (IF file.raised THEN <<>>
                                ELSE <<Step("rough_code")>>)
               /\ rough_calls' = IF file.raised THEN rough_calls
                                 ELSE Append(rough_calls, FALSE)
               /\ scan_calls' = IF file.raised THEN scan_calls
                                ELSE scan_calls \o future_reference_scans(
                                         future_reference_verification_default_fast)
       ELSE /\ pc' = "done"
            /\ UNCHANGED <<pytex, error, events, rough_calls, scan_calls>>
    /\ UNCHANGED <<options, branch, passes, copy_calls, log_checks, on, copy_log,
                   copy_status, new_filenames, summaries, summary>>
    /\ UNCHANGED not_run

Init == RunInit /\ TextIdle /\ NoPlugins /\ ApplyIdle /\ FutureIdle

Next ==
    \/ LireFichier
    \/ RunPrerequisites
    \/ CreateRoughSource
    \/ SimpleTest
    \/ LotexTest
    \/ LatexMore
    \/ CopyFinalFile
    \/ LogCheck
    \/ VerifGrep
    \/ AfterCompilation
    \/ FutureReferenceVerification

Spec == Init /\ [][Next]_vars

\* RunMe with every plugin list, one plugin of which may raise
InitRun == RunInitDefault /\ TextIdle /\ PluginsInit /\ ApplyIdle /\ FutureIdle
SpecRun == InitRun /\ [][Next]_vars

\* accept_input applied to every name and every pair of lists
InitAccept == RunIdle /\ AcceptInit /\ NoPlugins /\ ApplyIdle /\ FutureIdle
NextAccept == AcceptInput
SpecAccept == InitAccept /\ [][NextAccept]_vars

\* the suppression pass applied to every text, once and twice
NextText == Suppress \/ SuppressAgain
InitText == RunIdle /\ TextInit /\ NoPlugins /\ ApplyIdle /\ FutureIdle

\* the future-reference analysis applied to every text and predicate
InitFuture == RunIdle /\ TextIdle /\ NoPlugins /\ ApplyIdle /\ FutureInit
NextFuture == FutureAnalysis
SpecFuture == InitFuture /\ [][NextFuture]_vars

\* apply_plugin applied to every plugin list and hook name
InitApply == RunIdle /\ TextIdle /\ PluginsInit /\ ApplyIdle /\ FutureIdle
NextApply == ApplyPlugin
SpecApply == InitApply /\ [][NextApply]_vars
SpecText == InitText /\ [][NextText]_vars

(***************************************************************************)
(* Properties                                                              *)
(***************************************************************************)

\* C1: the recompilation loop never makes more than MAX_PASSES compile
\* passes, whatever the log check answers.
C1_PassesWithinMaxPasses == passes <= MAX_PASSES

\* C2: in the loop, the log of each finished pass is checked once (the check
\* that follows pass n is check n); a pass is started only when the loop
\* variable holds a rerun answer and every earlier pass has been checked; a
\* check answering "no rerun" leads to the stable exit, and from then on no
\* compile pass is made.
C2_CheckThenRerunOrStable ==
    [][ /\ (passes' = passes + 1 /\ branch' = "loop")
           => (on /\ log_checks = passes)
        /\ (log_checks' = log_checks + 1)
           => (pc = "log_check" /\ log_checks' = passes /\ passes' = passes)
        /\ (log_checks' = log_checks + 1 /\ ~on') => pc' = "verif_grep"
        /\ (log_checks > 0 /\ ~on) => passes' = passes
      ]_vars

C2_Witness ==
    /\ pc = "verif_grep"
    /\ branch = "loop"
    /\ passes = 3
    /\ log_checks = 3
    /\ ~on

\* C3: every latex_more is followed by copy_final_file before the log of
\* that pass is checked and before another pass starts: the copies made
\* equal the passes made, except while the copy of the pass just compiled
\* is the next step.
C3_CopyOnEveryPass ==
    /\ pc = "copy_final_file" => copy_calls = passes - 1
    /\ pc # "copy_final_file" => copy_calls = passes
    /\ log_checks <= copy_calls
    /\ pc = "log_check" => log_checks = copy_calls - 1

C3_Witness ==
    /\ pc = "log_check"
    /\ passes = 3
    /\ copy_calls = 3
    /\ log_checks = 2

\* The destinations the caller asked for: new_output_filename when set, then
\* the entries of new_output_filenames when set, else "0-" + the artifact.
C4_Destinations ==
    LET single == IF options.new_output_filename.is_none THEN <<>>
                  ELSE <<options.new_output_filename.v>>
        list == IF options.new_output_filenames.is_none THEN <<>>
                ELSE options.new_output_filenames.v
    IN IF single \o list = <<>>
       THEN << <<"0-">> \o pdf_output_of(options) >>
       ELSE single \o list

\* the destinations of the copies of the primary artifact, in order
C4_PrimaryCopies ==
    LET primary == SelectSeq(copy_log, LAMBDA c : c.src = pdf_output_of(options))
    IN [i \in DOMAIN primary |-> primary[i].dst]

\* C4 (as stated): whenever copy_final_file has ended, the primary artifact
\* has been copied to exactly the requested destinations, once each, in order.
C4_CopiesToAllDestinations ==
    copy_status # "none" => C4_PrimaryCopies = C4_Destinations

\* C4 (amended): when copy_final_file returns without raising, the primary
\* artifact has been copied to exactly the requested destinations, once
\* each, in order; when it raises, the destinations served are a prefix of
\* them.
C4_CopiesWhenCompleted ==
    /\ copy_status = "ok" => C4_PrimaryCopies = C4_Destinations
    /\ copy_status = "raised" =>
          /\ Len(C4_PrimaryCopies) <= Len(C4_Destinations)
          /\ C4_PrimaryCopies = SubSeq(C4_Destinations, 1, Len(C4_PrimaryCopies))

C4_Witness ==
    /\ copy_status = "ok"
    /\ ~options.new_output_filename.is_none
    /\ ~options.new_output_filenames.is_none
    /\ Len(options.new_output_filenames.v) = 2
    /\ Len(C4_PrimaryCopies) = 3

\* C5: when the companion file is missing, make_final_copy raises after the
\* primary artifact has been copied to the destination at hand (the k-th):
\* the last copy made is that primary copy, no companion copy follows it
\* (k primary copies, k - 1 companion copies), the destinations after the
\* k-th are not served, and the run has ended (no step, hence no compile
\* pass, is possible any more).
C5_MissingCompanionIsFatal ==
    copy_status = "raised" =>
        LET n == Len(copy_log)
            k == (n + 1) \div 2
        IN /\ n % 2 = 1
           /\ k <= Len(new_filenames)
           /\ copy_log[n] = Copy(pdf_output_of(options), new_filenames[k])
           /\ Len(C4_PrimaryCopies) = k
           /\ Len(copy_log) - Len(C4_PrimaryCopies) = k - 1
           /\ pc = "aborted"
           /\ ~ENABLED Next

C5_Witness ==
    /\ copy_status = "raised"
    /\ Len(new_filenames) = 3
    /\ Len(copy_log) = 3
    /\ passes = 2

\* C6: accept_input(name) is true exactly when name is in the accepted list
\* and not in the refuted list.
C6_AcceptIffAcceptedAndNotRefuted ==
    phase = "queried" =>
        (accepted <=> (In(query, ok_filenames_list)
                       /\ ~In(query, refute_filenames_list)))

C6_Witness ==
    /\ phase = "queried"
    /\ In(query, ok_filenames_list)
    /\ In(query, refute_filenames_list)
    /\ ~accepted

\* offset of the document-begin marker in the text given to the pass
C7_Begin == LatexCode_find(text, BeginDocument)

C7_IsAccepted(i) ==
    accept_input(text[i].filename, ok_filenames_list, refute_filenames_list)

\* C7: outside build-all mode, every \input occurrence after the
\* document-begin marker is replaced by "%" when its file is not accepted
\* and is left as written when it is accepted.
C7_SuppressAfterBegin ==
    (phase # "start" /\ options.tout = 0 /\ C7_Begin >= 0) =>
        /\ Len(out1) = Len(text)
        /\ \A i \in DOMAIN text :
              (text[i].kind = "\\input" /\ i - 1 > C7_Begin) =>
                  IF C7_IsAccepted(i) THEN out1[i] = text[i]
                  ELSE out1[i] = Percent

C7_Witness ==
    /\ phase = "suppressed"
    /\ options.tout = 0
    /\ C7_Begin >= 0
    /\ \E i, j \in DOMAIN text :
          /\ i - 1 > C7_Begin /\ j - 1 > C7_Begin
          /\ text[i].kind = "\\input" /\ text[j].kind = "\\input"
          /\ C7_IsAccepted(i) /\ ~C7_IsAccepted(j)
          /\ out1[i] = text[i] /\ out1[j] = Percent

\* C8: the suppression pass leaves every \input occurrence located before
\* the document-begin marker as it was written.
C8_PreambleUnchanged ==
    (phase # "start" /\ C7_Begin >= 0) =>
        \A i \in DOMAIN text :
            (text[i].kind = "\\input" /\ i - 1 < C7_Begin) =>
                (i \in DOMAIN out1 /\ out1[i] = text[i])

\* C9: the suppression pass applied to its own output returns that output.
C9_SuppressIdempotent == phase = "again" => out2 = out1

C9_Witness ==
    /\ phase = "again"
    /\ options.tout = 0
    /\ out1 # text
    /\ \E i \in DOMAIN out1 : out1[i].kind = "\\input" /\ i - 1 > C7_Begin
    /\ \E i \in DOMAIN out1 : out1[i].kind = "\\input" /\ i - 1 < C7_Begin
    /\ out2 = out1

\* C10: no scanner call of the future-reference analysis is made with
\* fast = true.
C10_ScansAreRobust == \A i \in DOMAIN scan_calls : ~scan_calls[i].fast

\* offsets at which the analysed text defines the label
C11_Definitions(label) ==
    {i - 1 : i \in {j \in DOMAIN rough_code :
                       rough_code[j].macro = "\\label" /\ rough_code[j].argument = label}}

\* the analysed text defines some label twice
C11_HasDuplicateLabel ==
    \E i, j \in DOMAIN rough_code :
        /\ i < j
        /\ rough_code[i].macro = "\\label" /\ rough_code[j].macro = "\\label"
        /\ rough_code[i].argument = rough_code[j].argument

\* C11: with a label defined twice, future_reference_verification raises
\* while building the label map: no warning is computed, the predicate is
\* not asked, nothing is output and no total is printed.
C11_DuplicateLabelIsFatal ==
    (analysis.done /\ C11_HasDuplicateLabel) =>
        /\ analysis.raised
        /\ analysis.future_warnings = <<>>
        /\ analysis.predicate_calls = <<>>
        /\ analysis.outputs = <<>>
        /\ ~analysis.total_printed

C11_Witness ==
    /\ analysis.done
    /\ analysis.raised
    /\ Len(rough_code) = 3
    /\ rough_code[1].macro = "\\ref" /\ rough_code[1].argument = "a"
    /\ rough_code[2].macro = "\\label" /\ rough_code[2].argument = "a"
    /\ rough_code[3].macro = "\\label" /\ rough_code[3].argument = "a"
    /\ 0 \in has_to_be_printed

\* C12: the report made before the duplicate-label error is raised shows
\* both conflicting occurrences, the first definition and the second.
C12_ReportShowsBothOccurrences ==
    (analysis.done /\ analysis.raised) =>
        \E i, j \in DOMAIN rough_code :
            /\ i < j
            /\ rough_code[i].macro = "\\label" /\ rough_code[j].macro = "\\label"
            /\ rough_code[i].argument = rough_code[j].argument
            /\ \E m, n \in DOMAIN analysis.report :
                  /\ m # n
                  /\ analysis.report[m].kind = "as_written"
                  /\ analysis.report[n].kind = "as_written"
                  /\ analysis.report[m].written = rough_code[i]
                  /\ analysis.report[n].written = rough_code[j]

\* the warnings computed for the reference at offset p
C13_WarningsAt(p) ==
    {k \in DOMAIN analysis.future_warnings :
        analysis.future_warnings[k].ref.position = p}

\* C13: without duplicate labels, each \ref or \eqref occurrence whose label
\* is defined at a larger offset gets exactly one warning, pairing it with
\* that definition; a reference after its definition, or to a label that is
\* not defined, gets none.
C13_OneWarningPerForwardReference ==
    (analysis.done /\ ~C11_HasDuplicateLabel) =>
        /\ ~analysis.raised
        /\ \A i \in DOMAIN rough_code :
              rough_code[i].macro \in {"\\ref", "\\eqref"} =>
                  LET defs == C11_Definitions(rough_code[i].argument)
                  IN IF \E d \in defs : i - 1 < d
                     THEN /\ Cardinality(C13_WarningsAt(i - 1)) = 1
                          /\ \A k \in C13_WarningsAt(i - 1) :
                                /\ analysis.future_warnings[k].label = rough_code[i].argument
                                /\ analysis.future_warnings[k].definition.position \in defs
                                /\ analysis.future_warnings[k].ref.as_written = rough_code[i]
                     ELSE C13_WarningsAt(i - 1) = {}
        /\ \A k \in DOMAIN analysis.future_warnings :
              LET p == analysis.future_warnings[k].ref.position
              IN /\ p + 1 \in DOMAIN rough_code
                 /\ rough_code[p + 1].macro \in {"\\ref", "\\eqref"}

C13_Witness ==
    /\ analysis.done
    /\ ~analysis.raised
    /\ Len(rough_code) = 4
    /\ rough_code[1] = MacroUse("\\eqref", "a", "{}")
    /\ rough_code[2].macro = "\\label" /\ rough_code[2].argument = "a"
    /\ rough_code[3] = MacroUse("\\ref", "a", "{}")
    /\ rough_code[4] = MacroUse("\\ref", "b", "{}")
    /\ Len(analysis.future_warnings) = 1

\* indices of the plugins registered for the hook of the last call
C14_Registered ==
    SelectSeq([i \in DOMAIN plugin_list |-> i], LAMBDA i : plugin_list[i] = stage)

\* C14: apply_plugin calls exactly the plugins whose hook name is the one
\* asked for, once each, in the order of plugin_list; for the text hooks
\* each plugin gets the text the previous one returned and the result is
\* the text the last one returned.
C14_PluginsInRegistrationOrder ==
    (applied.done /\ ~applied.raised) =>
        /\ Len(applied.calls) = Len(C14_Registered)
        /\ \A k \in DOMAIN applied.calls :
              /\ applied.calls[k].plugin = C14_Registered[k]
              /\ applied.calls[k].hook_name = stage
              /\ stage \in {"before_pytex", "after_pytex"} =>
                    applied.calls[k].input =
                        IF k = 1 THEN applied.given ELSE applied.calls[k - 1].output
        /\ stage \in {"before_pytex", "after_pytex"} =>
              applied.A = IF applied.calls = <<>> THEN applied.given
                          ELSE applied.calls[Len(applied.calls)].output

C14_Witness ==
    /\ applied.done
    /\ ~applied.raised
    /\ stage = "after_pytex"
    /\ plugin_list = <<"after_pytex", "after_pytex">>
    /\ Len(applied.calls) = 2
    /\ applied.A = <<PlainText, PluginMark(1), PluginMark(2)>>

\* the events that are plugin calls
IsPluginCall(e) == e.kind = "plugin"
\* the positions in events of the calls of the i-th plugin
CallsOf(i) == {k \in DOMAIN events : IsPluginCall(events[k]) /\ events[k].plugin = i}

\* C15: once the raising plugin has been called, that call is the last
\* thing the run did (no later plugin of the stage, no second call of the
\* plugin, no suppression, save, pass or copy), the run is over with the
\* plugin's exception and nothing can follow.
C15_PluginFailureEndsTheRun ==
    \A k \in CallsOf(failing) :
        /\ k = Len(events)
        /\ error = "plugin"
        /\ pc = "aborted"
        /\ ~ENABLED Next

C15_Witness ==
    /\ failing = 1
    /\ plugin_list = <<"after_pytex", "after_pytex">>
    /\ CallsOf(1) # {}
    /\ CallsOf(2) = {}
    /\ pytex.saved = <<>>
    /\ passes = 0
    /\ pc = "aborted"

\* did an "options" plugin raise while the request file was read
C16_OptionsFailed ==
    /\ failing # 0
    /\ plugin_list[failing] = "options"
    /\ error = "plugin"

\* C16: each "options" plugin is called at most once in a run, exactly once
\* as soon as the request file has been read, and nothing but calls of
\* "options" plugins comes before such a call: no prerequisites hook, no
\* document step, no plugin of another stage, no pass.
C16_OptionsPluginsOnceAndFirst ==
    \A i \in DOMAIN plugin_list :
        plugin_list[i] = "options" =>
            /\ Cardinality(CallsOf(i)) <= 1
            /\ (pc # "LireFichier" /\ ~C16_OptionsFailed)
                   => Cardinality(CallsOf(i)) = 1
            /\ \A k \in CallsOf(i) :
                  /\ events[k].hook_name = "options"
                  /\ \A j \in 1..(k - 1) :
                        /\ IsPluginCall(events[j])
                        /\ events[j].hook_name = "options"
                        /\ events[j].plugin < i

C16_Witness ==
    /\ plugin_list = <<"before_compilation", "options">>
    /\ failing = 0
    /\ pc = "done"
    /\ passes >= 2
    /\ CallsOf(2) = {1}

\* the events of the building of the principal document, in order
C17_IsDocumentEvent(e) ==
    \/ e.kind \in {"ProduceIntermediateCode", "save"}
    \/ IsPluginCall(e) /\ e.hook_name \in {"before_pytex", "after_pytex"}
C17_DocumentEvents == SelectSeq(events, C17_IsDocumentEvent)
\* the registered plugins of a hook, as indices of plugin_list in order
C17_PluginsOf(hook_name) ==
    LET Is(i) == plugin_list[i] = hook_name
    IN SelectSeq([i \in DOMAIN plugin_list |-> i], Is)
\* what the k-th step of the building has to be
C17_Expected(k) ==
    LET before == C17_PluginsOf("before_pytex")
        after == C17_PluginsOf("after_pytex")
        nb == Len(before)
        na == Len(after)
    IN IF k <= nb THEN [kind |-> "plugin", hook_name |-> "before_pytex",
                        plugin |-> before[k]]
       ELSE IF k = nb + 1 THEN [kind |-> "ProduceIntermediateCode",
                                hook_name |-> "", plugin |-> 0]
       ELSE IF k <= nb + 1 + na THEN [kind |-> "plugin", hook_name |-> "after_pytex",
                                      plugin |-> after[k - nb - 1]]
       ELSE [kind |-> "save", hook_name |-> "", plugin |-> 0]
C17_Steps ==
    Len(C17_PluginsOf("before_pytex")) + Len(C17_PluginsOf("after_pytex")) + 2

\* C17: the building is the before_pytex plugins, then the suppression,
\* then the after_pytex plugins, then the save, each step once and each
\* working on the result of the one before; the suppression works on
\* text_before_pytex; the text saved holds what every after_pytex plugin
\* did, which the text given to that plugin does not.
C17_DocumentStepsInOrder ==
    LET D == C17_DocumentEvents
    IN /\ Len(D) <= C17_Steps
       /\ pytex.built => Len(D) = C17_Steps
       /\ \A k \in DOMAIN D :
             /\ D[k].kind = C17_Expected(k).kind
             /\ D[k].hook_name = C17_Expected(k).hook_name
             /\ D[k].plugin = C17_Expected(k).plugin
             /\ D[k].input = IF k = 1 THEN original_text
                             ELSE IF D[k].kind = "save"
                             THEN StrReplace(D[k - 1].output, BeginDocument,
                                             <<BeginDocument, UseCorrectionFile>>)
                             ELSE D[k - 1].output
             /\ D[k].kind = "ProduceIntermediateCode" =>
                   /\ D[k].input = pytex.text_before_pytex
                   /\ D[k].output = ProduceIntermediateCode(
                          D[k].input, options.tout, ok_filenames_list,
                          refute_filenames_list)
             /\ D[k].kind = "save" => /\ pytex.built
                                      /\ pytex.saved = D[k].input
       /\ pytex.built =>
             \A k \in DOMAIN D :
                D[k].hook_name = "after_pytex" =>
                   /\ \E p \in DOMAIN pytex.saved :
                         pytex.saved[p] = PluginMark(D[k].plugin)
                   /\ \A p \in DOMAIN D[k].input :
                         D[k].input[p] # PluginMark(D[k].plugin)
                   /\ pytex.saved # D[k].input

C17_Witness ==
    /\ plugin_list = <<"after_pytex", "before_pytex">>
    /\ failing = 0
    /\ pytex.built
    /\ pytex.saved = <<Input("foo", "{}"), BeginDocument, UseCorrectionFile,
                       Percent, PlainText, PluginMark(2),
                       PluginMark(1)>>
    /\ pc = "done"

\* C18: a call of an after_compilation plugin comes after a completed pass
\* and no pass comes after it.
C18_AfterCompilationFollowsCompilation ==
    \A k \in DOMAIN events :
        (IsPluginCall(events[k]) /\ events[k].hook_name = "after_compilation") =>
            /\ \E j \in 1..(k - 1) : events[j].kind = "latex_more"
            /\ \A j \in (k + 1)..Len(events) : events[j].kind # "latex_more"

\* the positions in events of the verif_grep calls
C19_Summaries == {k \in DOMAIN events : events[k].kind = "verif_grep"}

\* C19: the summary is produced in the step after the loop ended, with the
\* last log check having asked for no rerun, whatever the problem count; the
\* step ends in no error, no pass follows it, the after_compilation plugins
\* are all called after it, and a run that has produced it ends with an
\* error only if a plugin raised.
C19_SummaryWhenStableAndNotFatal ==
    /\ [](summaries > 0 =>
            /\ Cardinality(C19_Summaries) = 1
            /\ ~on
            /\ log_checks = passes
            /\ passes >= 1
            /\ \A k \in C19_Summaries :
                  \A j \in (k + 1)..Len(events) :
                     events[j].kind \notin {"latex_more", "copy_final_file"}
            /\ pc \in {"after_compilation", "verif_test", "done", "aborted"}
            /\ pc = "aborted" => (error = "plugin" /\ CallsOf(failing) # {})
            /\ pc \in {"after_compilation", "verif_test"} => ENABLED Next
            /\ pc \in {"verif_test", "done"} =>
                  \A i \in DOMAIN plugin_list :
                     plugin_list[i] = "after_compilation" =>
                        \E j \in CallsOf(i) : \A k \in C19_Summaries : k < j)
    /\ [][summaries' # summaries =>
            /\ pc = "verif_grep"
            /\ pc' = "after_compilation"
            /\ error' = "none"
            /\ summaries' = summaries + 1
            /\ passes' = passes]_vars

C19_Witness ==
    /\ pc = "done"
    /\ error = "none"
    /\ summary = <<"Still problems to be fixed", "FileToLogCode">>
    /\ passes = 2
    /\ plugin_list = <<"after_compilation">>
    /\ \E k \in C19_Summaries : CallsOf(1) = {k + 1}

\* the positions in events of the returns of pytex_file
C21_Returns == {k \in DOMAIN events : events[k].kind = "pytex_file"}
\* the positions in events of the calls of a function
C21_StepsOf(kind) == {k \in DOMAIN events : events[k].kind = kind}

\* C21: in a run, each before_pytex and after_pytex plugin, the suppression
\* and the save happen at most once; pytex_file returns once for every pass
\* and every rough_code call; each return gives options.pytex_filename and
\* has exactly one run of each step before it; a return after the first
\* comes without any of them having run again; once built, the document
\* kept is never changed.
C21_DocumentBuiltOnce ==
    /\ [](/\ \A i \in DOMAIN plugin_list :
                plugin_list[i] \in {"before_pytex", "after_pytex"} =>
                    Cardinality(CallsOf(i)) <= 1
          /\ Cardinality(C21_StepsOf("ProduceIntermediateCode")) <= 1
          /\ Cardinality(C21_StepsOf("save")) <= 1
          /\ Cardinality(C21_Returns) = passes + Len(rough_calls)
          /\ pytex.built <=> C21_Returns # {}
          /\ \A k \in C21_Returns :
                /\ events[k].output = options.pytex_filename
                /\ pytex.filename = Some(events[k].output)
                /\ \E j \in C21_StepsOf("save") : j < k
                /\ \E j \in C21_StepsOf("ProduceIntermediateCode") : j < k
                /\ \A i \in DOMAIN plugin_list :
                      plugin_list[i] \in {"before_pytex", "after_pytex"} =>
                          \E j \in CallsOf(i) : j < k
                /\ (\E j \in C21_Returns : j < k) =>
                      \A j \in C21_Returns :
                         j < k => \A n \in (j + 1)..(k - 1) :
                                     ~C17_IsDocumentEvent(events[n]))
    /\ [][pytex.built => pytex' = pytex]_vars

C21_Witness ==
    /\ plugin_list = <<"before_pytex", "after_pytex">>
    /\ failing = 0
    /\ options.rough_source
    /\ passes = 2
    /\ Cardinality(C21_Returns) = 3
    /\ Cardinality(CallsOf(1)) = 1
    /\ Cardinality(CallsOf(2)) = 1
    /\ pc = "done"

\* the events that happen inside future_reference_verification: those of
\* rough_code and of the pytex_file it calls
C22_InsideAnalysis(e) ==
    \/ e.kind \in {"rough_code", "pytex_file"}
    \/ C17_IsDocumentEvent(e)

\* C22: with --verif there is no pass and no copy at any point of the run,
\* the analysis is called at most once, exactly once in a run that ends, and
\* nothing of RunMe comes after the call; a run that ended without it ended
\* with the exception of a plugin.  Without --verif it is never called.
C22_VerifRunOnlyAnalyses ==
    LET calls == C21_StepsOf("future_reference_verification")
    IN /\ options.verif =>
             /\ passes = 0
             /\ copy_calls = 0
             /\ copy_log = <<>>
             /\ C21_StepsOf("latex_more") = {}
             /\ C21_StepsOf("copy_final_file") = {}
             /\ Cardinality(calls) <= 1
             /\ pc = "done" => Cardinality(calls) = 1
             /\ (pc = "aborted" /\ calls = {}) => error = "plugin"
             /\ \A k \in calls :
                   /\ pc \in {"done", "aborted"}
                   /\ ~ENABLED Next
                   /\ \A j \in (k + 1)..Len(events) :
                         C22_InsideAnalysis(events[j])
       /\ ~options.verif =>
             /\ calls = {}
             /\ scan_calls = <<>>

C22_Witness ==
    /\ options.verif
    /\ ~options.nocompilation
    /\ plugin_list = <<"before_compilation", "after_compilation">>
    /\ failing = 0
    /\ pc = "done"
    /\ passes = 0
    /\ copy_calls = 0
    /\ Cardinality(C21_StepsOf("future_reference_verification")) = 1
    /\ events[Len(events)].kind = "rough_code"
    /\ Len(scan_calls) = 3

\* is the warning accepted by myRequest.has_to_be_printed
C20_Accepted(warning) == warning.ref.position \in has_to_be_printed

\* C20: every computed warning is given to the predicate once, in order; the
\* warnings output are those it accepts; the total printed is their number.
C20_FilterAndTotal ==
    (analysis.done /\ ~analysis.raised) =>
        /\ analysis.predicate_calls = analysis.future_warnings
        /\ analysis.outputs = SelectSeq(analysis.future_warnings, C20_Accepted)
        /\ analysis.total_printed
        /\ analysis.total_futur = Len(analysis.outputs)

C20_Witness ==
    /\ analysis.done
    /\ ~analysis.raised
    /\ Len(analysis.future_warnings) = 3
    /\ Len(analysis.outputs) = 1
    /\ analysis.total_futur = 1

====
